---- MODULE Spec2Model ----
(***************************************************************************)
(* A model of pypreprocess/openfmri.py: preproc_dataset (fetch trigger,    *)
(* subject enumeration, the lazy subject_factory generator, the call of    *)
(* the external preprocessing routine) and _save_to_layout (the hard-link  *)
(* mirror with _check_dir, _link_files and _link_file).                    *)
(*                                                                         *)
(* A path is the sequence of its components below "/".  The filesystem is  *)
(* a function from the existing paths to directory entries; a file entry   *)
(* carries its inode, named after the path the file was created at, so     *)
(* two paths are hard links of one file iff their entries are equal.       *)
(***************************************************************************)
EXTENDS Integers, Sequences, FiniteSets, TLC

VARIABLES
    args,            \* the arguments of preproc_dataset
    module_globals,  \* names bound in the module namespace besides the file's own
    remote,          \* the tree fetch_openfmri would download
    fs,              \* the filesystem
    pc,              \* position in preproc_dataset / _save_to_layout
    error,           \* the exception that ended the run, or "none"
    fetch_calls,     \* the calls of fetch_openfmri, with their arguments
    subjects,        \* preproc_dataset's local `subjects`
    gen_todo,        \* what subject_factory's for loop has still to visit
    yielded,         \* the descriptors subject_factory has yielded
    warned,          \* the warnings.warn calls, in order
    examined,        \* the bold.nii.gz lookups (line 99), in order
    preproc,         \* what do_subjects_preproc returned
    retval,          \* what preproc_dataset returned
    call,            \* the arguments of the current _save_to_layout call
    base_output,     \* _save_to_layout's local `base_output`
    index,           \* _save_to_layout's dict subject_id -> descriptor
    sub_todo,        \* the sub??? directories its loop has still to visit
    sub_done,        \* the subjects whose loop body has completed
    run,             \* how many times _save_to_layout has been called
    fs_before,       \* the filesystem when the current call began
    fs_first         \* the filesystem when the first call returned

vars == <<args, module_globals, remote, fs, pc, error, fetch_calls, subjects,
          gen_todo, yielded, warned, examined, preproc, retval, call,
          base_output, index, sub_todo, sub_done, run, fs_before, fs_first>>

----------------------------------------------------------------------------
(* Bounds *)

MaxRestrict == 2
MaxRuns == 2

----------------------------------------------------------------------------
(* Names.  Python compares and globs strings character by character; Ord   *)
(* gives each name used in the model its code points.                      *)

Ord ==
  "sub001" :> <<115, 117, 98, 48, 48, 49>> @@
  "sub002" :> <<115, 117, 98, 48, 48, 50>> @@
  "sub003" :> <<115, 117, 98, 48, 48, 51>> @@
  "models" :> <<109, 111, 100, 101, 108, 115>> @@
  "model001" :> <<109, 111, 100, 101, 108, 48, 48, 49>> @@
  "scan_key.txt" :> <<115, 99, 97, 110, 95, 107, 101, 121, 46, 116, 120, 116>> @@
  "condition_key.txt" :> <<99, 111, 110, 100, 105, 116, 105, 111, 110, 95, 107, 101, 121, 46, 116, 120, 116>> @@
  "cond001.txt" :> <<99, 111, 110, 100, 48, 48, 49, 46, 116, 120, 116>> @@
  "ses01" :> <<115, 101, 115, 48, 49>> @@
  "ses02" :> <<115, 101, 115, 48, 50>> @@
  "ses03" :> <<115, 101, 115, 48, 51>> @@
  "notes.md" :> <<110, 111, 116, 101, 115, 46, 109, 100>> @@
  ".hidden.txt" :> <<46, 104, 105, 100, 100, 101, 110, 46, 116, 120, 116>>

SubPrefix == <<115, 117, 98>>
TxtSuffix == <<46, 116, 120, 116>>

\* a < b for Python strings: at the first difference, or a a proper prefix
LexLess(a, b) ==
    \E i \in 1..Len(b) :
        /\ i <= Len(a) + 1
        /\ \A j \in 1..(i - 1) : a[j] = b[j]
        /\ (i = Len(a) + 1 \/ a[i] < b[i])

StrLess(x, y) == LexLess(Ord[x], Ord[y])

\* fnmatch of a directory entry against the patterns the code globs with;
\* glob never matches a name starting with "." (code point 46) against a
\* leading wildcard
MatchSub(n) ==
    /\ Len(Ord[n]) = 6
    /\ SubSeq(Ord[n], 1, 3) = SubPrefix

MatchStar(n) == Len(Ord[n]) > 0 /\ Ord[n][1] # 46

MatchTxt(n) ==
    /\ Len(Ord[n]) >= 4
    /\ Ord[n][1] # 46
    /\ SubSeq(Ord[n], Len(Ord[n]) - 3, Len(Ord[n])) = TxtSuffix

----------------------------------------------------------------------------
(* Sequences *)

Range(s) == {s[i] : i \in 1..Len(s)}

Front(s) == SubSeq(s, 1, Len(s) - 1)

Last(s) == s[Len(s)]

RECURSIVE SetToSeq(_)
SetToSeq(S) ==
    IF S = {} THEN <<>>
    ELSE LET x == CHOOSE y \in S : TRUE IN <<x>> \o SetToSeq(S \ {x})

\* every order in which a listing of the set S can come back
Orders(S) ==
    {s \in [1..Cardinality(S) -> S] : Range(s) = S}

RECURSIVE Insert(_, _)
Insert(x, s) ==
    IF s = <<>> THEN <<x>>
    ELSE IF StrLess(x, Head(s)) THEN <<x>> \o s
    ELSE <<Head(s)>> \o Insert(x, Tail(s))

\* sorted(list): ascending, equal elements kept (all of them)
RECURSIVE Sorted(_)
Sorted(s) ==
    IF s = <<>> THEN <<>> ELSE Insert(Last(s), Sorted(Front(s)))

SelectNotIn(s, S) == SelectSeq(s, LAMBDA x : x \notin S)

----------------------------------------------------------------------------
(* The filesystem *)

DirE == [kind |-> "dir", ino |-> <<>>]

FileE(p) == [kind |-> "file", ino |-> p]

Ancestors(p) == {SubSeq(p, 1, k) : k \in 0..(Len(p) - 1)}

\* the filesystem holding the files F and the directories D, with all the
\* directories above them
MkFs(D, F) ==
    LET dirs == D \cup UNION {Ancestors(p) : p \in D \cup F}
    IN [p \in dirs \cup F |-> IF p \in dirs THEN DirE ELSE FileE(p)]

Exists(f, p) == p \in DOMAIN f

IsDir(f, p) == p \in DOMAIN f /\ f[p].kind = "dir"

Children(f, d) ==
    {p \in DOMAIN f : Len(p) = Len(d) + 1 /\ SubSeq(p, 1, Len(d)) = d}

\* the entries of directory d; a glob below something that is no directory
\* finds nothing
Listing(f, d) == IF IsDir(f, d) THEN {Last(p) : p \in Children(f, d)} ELSE {}

GlobSub(f, d) == {n \in Listing(f, d) : MatchSub(n)}

GlobStar(f, d) == {n \in Listing(f, d) : MatchStar(n)}

GlobTxt(f, d) == {n \in Listing(f, d) : MatchTxt(n)}

Ok(f) == [fs |-> f, err |-> "none"]

Fail(f, e) == [fs |-> f, err |-> e]

\* os.mkdir
Mkdir(r, p) ==
    IF r.err # "none" THEN r
    ELSE IF Exists(r.fs, p) THEN Fail(r.fs, "EEXIST")
    ELSE IF ~Exists(r.fs, Front(p)) THEN Fail(r.fs, "ENOENT")
    ELSE IF ~IsDir(r.fs, Front(p)) THEN Fail(r.fs, "ENOTDIR")
    ELSE Ok((p :> DirE) @@ r.fs)

\* os.makedirs: the missing parents first, then the leaf
RECURSIVE MakeDirs(_, _)
MakeDirs(r, p) ==
    IF r.err # "none" THEN r
    ELSE IF Len(p) > 0 /\ ~Exists(r.fs, Front(p))
         THEN Mkdir(MakeDirs(r, Front(p)), p)
         ELSE Mkdir(r, p)

\* os.remove
Remove(r, p) ==
    IF r.err # "none" THEN r
    ELSE IF ~Exists(r.fs, p) THEN Fail(r.fs, "ENOENT")
    ELSE IF IsDir(r.fs, p) THEN Fail(r.fs, "EISDIR")
    ELSE Ok([q \in DOMAIN r.fs \ {p} |-> r.fs[q]])

\* os.link
Link(r, src, dest) ==
    IF r.err # "none" THEN r
    ELSE IF ~Exists(r.fs, src) THEN Fail(r.fs, "ENOENT")
    ELSE IF IsDir(r.fs, src) THEN Fail(r.fs, "EPERM")
    ELSE IF Exists(r.fs, dest) THEN Fail(r.fs, "EEXIST")
    ELSE IF ~Exists(r.fs, Front(dest)) THEN Fail(r.fs, "ENOENT")
    ELSE IF ~IsDir(r.fs, Front(dest)) THEN Fail(r.fs, "ENOTDIR")
    ELSE Ok((dest :> r.fs[src]) @@ r.fs)

----------------------------------------------------------------------------
(* os.path *)

\* os.path.split of the data_dir argument: with a trailing "/" the tail is
\* empty and the head is the whole path
Split(comps, slash) ==
    IF slash \/ comps = <<>> THEN [head |-> comps, tail |-> ""]
    ELSE [head |-> Front(comps), tail |-> Last(comps)]

\* os.path.split(data_dir.rstrip('/'))[1]
StudyId(comps) == IF comps = <<>> THEN "" ELSE Last(comps)

----------------------------------------------------------------------------
(* The dataset on disk.  A subject entry of the dataset root is absent, a  *)
(* plain file, or a directory; a directory has some sessions below BOLD,   *)
(* each with or without bold.nii.gz, either anatomical image or none, and  *)
(* possibly onsets for its first session.                                  *)

SessionNames == {"ses01", "ses02"}

AllSessionNames == SessionNames \cup {"ses03"}

Absent == [kind |-> "absent", bold |-> <<>>, full |-> FALSE, brain |-> FALSE,
           onsets |-> FALSE]

PlainFile == [kind |-> "file", bold |-> <<>>, full |-> FALSE, brain |-> FALSE,
              onsets |-> FALSE]

SubjectDir(b, f, g, o) ==
    [kind |-> "dir", bold |-> b, full |-> f, brain |-> g, onsets |-> o]

\* which of the sessions exist, and which of those hold bold.nii.gz
BoldChoices == UNION {[S -> BOOLEAN] : S \in SUBSET SessionNames}

SubjectFiles(d, s, lay) ==
    IF lay.kind = "absent" THEN {}
    ELSE IF lay.kind = "file" THEN {d \o <<s>>}
    ELSE {d \o <<s, "BOLD", n, "bold.nii.gz">> : n \in {m \in DOMAIN lay.bold : lay.bold[m]}}
         \cup (IF lay.full THEN {d \o <<s, "anatomy", "highres001.nii.gz">>} ELSE {})
         \cup (IF lay.brain THEN {d \o <<s, "anatomy", "highres001_brain.nii.gz">>} ELSE {})
         \cup (IF lay.onsets
               THEN {d \o <<s, "model", "model001", "onsets", "ses01", "cond001.txt">>,
                     d \o <<s, "model", "model001", "onsets", "ses01", "notes.md">>}
               ELSE {})

SubjectDirs(d, s, lay) ==
    IF lay.kind # "dir" THEN {}
    ELSE {d \o <<s, "BOLD">>, d \o <<s, "anatomy">>}
         \cup {d \o <<s, "BOLD", n>> : n \in DOMAIN lay.bold}

\* the dataset: its subjects' layouts, the files of its root and of
\* models/model001
DatasetFiles(d, ds) ==
    UNION {SubjectFiles(d, s, ds.subs[s]) : s \in DOMAIN ds.subs}
    \cup {d \o <<n>> : n \in ds.top}
    \cup {d \o <<"models", "model001", n>> : n \in ds.models}

DatasetDirs(d, ds) ==
    {d} \cup UNION {SubjectDirs(d, s, ds.subs[s]) : s \in DOMAIN ds.subs}

Dataset(d, ds) == MkFs(DatasetDirs(d, ds), DatasetFiles(d, ds))

NoFs == MkFs({}, {})

----------------------------------------------------------------------------
(* The external collaborators *)

\* fetch_openfmri(data_dir, dataset_id): downloads the dataset into
\* data_dir/dataset_id; there is no dataset without an identifier
FetchInstalls(f, parent_dir, dataset_id, tree) ==
    IF dataset_id = "" THEN Fail(f, "FetchError") ELSE Ok(tree @@ f)

\* do_subjects_preproc: what it writes for a subject, and the descriptor it
\* returns for it: the sessions of the input descriptor, one processed
\* functional image and one motion file per session, in the same order
ResultFiles(d) ==
    {d.output_dir \o <<"anat.nii">>}
    \cup {d.output_dir \o <<n, "bold.nii">> : n \in Range(d.session_id)}
    \cup {d.output_dir \o <<n, "rp.txt">> : n \in Range(d.session_id)}

ResultOf(d) ==
    [subject_id |-> d.subject_id,
     session_id |-> d.session_id,
     anat |-> d.output_dir \o <<"anat.nii">>,
     func |-> [i \in 1..Len(d.session_id) |->
                  d.output_dir \o <<d.session_id[i], "bold.nii">>],
     realignment_parameters |-> [i \in 1..Len(d.session_id) |->
                  d.output_dir \o <<d.session_id[i], "rp.txt">>]]

\* it cannot process a subject whose anatomical image is not there
Processable(f, d) == Exists(f, d.anat) /\ ~IsDir(f, d.anat)

WriteResults(f, ds) ==
    LET F == UNION {ResultFiles(ds[i]) : i \in 1..Len(ds)}
        D == {ds[i].output_dir : i \in 1..Len(ds)}
    IN MkFs(D, F) @@ f

----------------------------------------------------------------------------
(* preproc_dataset *)

NoneValue == <<>>

Some(x) == <<x>>

\* lines 58-61: split the path, fetch when the directory is not there
FetchIfMissing ==
    /\ pc = "start"
    /\ LET sp == Split(args.data_dir, args.slash)
       IN IF Exists(fs, args.data_dir)
          THEN /\ pc' = "list"
               /\ UNCHANGED <<fs, error, fetch_calls>>
          ELSE /\ fetch_calls' = Append(fetch_calls,
                        [data_dir |-> sp.head, dataset_id |-> sp.tail])
               /\ \/ LET r == FetchInstalls(fs, sp.head, sp.tail, remote)
                     IN /\ fs' = r.fs
                        /\ error' = r.err
                        /\ pc' = IF r.err = "none" THEN "list" ELSE "raised"
                  \/ /\ sp.tail # ""
                     /\ fs' = fs
                     /\ error' = "FetchError"
                     /\ pc' = "raised"
    /\ UNCHANGED <<args, module_globals, remote, subjects, gen_todo, yielded,
                   warned, examined, preproc, retval, call, base_output,
                   index, sub_todo, sub_done, run, fs_before, fs_first>>

\* the subjects left in the order they were given in
SubjectList_Unsorted(f, data_dir, restrict_subjects) ==
    IF restrict_subjects = NoneValue
    THEN SetToSeq(GlobSub(f, data_dir))
    ELSE restrict_subjects[1]

\* lines 66-72
SubjectList(f, data_dir, restrict_subjects) ==
    Sorted(IF restrict_subjects = NoneValue
           THEN SetToSeq(GlobSub(f, data_dir))
           ELSE restrict_subjects[1])

ListSubjects ==
    /\ pc = "list"
    /\ subjects' = SubjectList(fs, args.data_dir, args.restrict_subjects)
    /\ pc' = "call"
    /\ UNCHANGED <<args, module_globals, remote, fs, error, fetch_calls,
                   gen_todo, yielded, warned, examined, preproc, retval, call,
                   base_output, index, sub_todo, sub_done, run, fs_before,
                   fs_first>>

\* lines 128-139: subject_factory() makes the generator without running it,
\* then the keyword arguments are evaluated; preproc_params is a name the
\* function never binds, looked up in the module namespace
CallPreproc ==
    /\ pc = "call"
    /\ IF "preproc_params" \in module_globals
       THEN /\ pc' = "iterating"
            /\ gen_todo' = subjects
            /\ error' = error
       ELSE /\ pc' = "raised"
            /\ error' = "NameError"
            /\ gen_todo' = gen_todo
    /\ UNCHANGED <<args, module_globals, remote, fs, fetch_calls, subjects,
                   yielded, warned, examined, preproc, retval, call,
                   base_output, index, sub_todo, sub_done, run, fs_before,
                   fs_first>>

\* the sessions left in the order the listing came in
SessionList_GlobOrder(globbed) == globbed

\* lines 80-85: the session names found, as a set, then sorted
SessionList(globbed) == Sorted(SetToSeq(Range(globbed)))

\* a session without bold.nii.gz dropped, the subject kept
RECURSIVE ScanSessions_SkipMissing(_, _, _, _)
ScanSessions_SkipMissing(f, bold_root, sessions, acc) ==
    IF sessions = <<>> THEN acc
    ELSE LET p == bold_root \o <<Head(sessions), "bold.nii.gz">>
             seen == Append(acc.looked, Head(sessions))
         IN IF ~Exists(f, p)
            THEN ScanSessions_SkipMissing(f, bold_root, Tail(sessions),
                     [acc EXCEPT !.looked = seen])
            ELSE ScanSessions_SkipMissing(f, bold_root, Tail(sessions),
                     [acc EXCEPT !.func = Append(@, p), !.looked = seen])

\* the scan going on after the first session without bold.nii.gz
RECURSIVE ScanSessions_NoBreak(_, _, _, _)
ScanSessions_NoBreak(f, bold_root, sessions, acc) ==
    IF sessions = <<>> THEN acc
    ELSE LET p == bold_root \o <<Head(sessions), "bold.nii.gz">>
             seen == Append(acc.looked, Head(sessions))
         IN IF ~Exists(f, p)
            THEN ScanSessions_NoBreak(f, bold_root, Tail(sessions),
                     [acc EXCEPT !.bad = TRUE,
                                 !.missing = IF acc.bad THEN @ ELSE Head(sessions),
                                 !.looked = seen])
            ELSE ScanSessions_NoBreak(f, bold_root, Tail(sessions),
                     [acc EXCEPT !.func = Append(@, p), !.looked = seen])

\* lines 93-108: the scan of the sessions, stopped at the first one without
\* bold.nii.gz
RECURSIVE ScanSessions(_, _, _, _)
ScanSessions(f, bold_root, sessions, acc) ==
    IF sessions = <<>> THEN acc
    ELSE LET p == bold_root \o <<Head(sessions), "bold.nii.gz">>
             seen == Append(acc.looked, Head(sessions))
         IN IF ~Exists(f, p)
            THEN [acc EXCEPT !.bad = TRUE, !.missing = Head(sessions),
                             !.looked = seen]
            ELSE ScanSessions(f, bold_root, Tail(sessions),
                     [acc EXCEPT !.func = Append(@, p), !.looked = seen])

\* the full-head path whether it exists or not
ResolveAnat_NoFallback(f, data_dir, subject_id) ==
    data_dir \o <<subject_id, "anatomy", "highres001.nii.gz">>

\* lines 115-122
ResolveAnat(f, data_dir, subject_id) ==
    LET anat == data_dir \o <<subject_id, "anatomy", "highres001.nii.gz">>
    IN IF ~Exists(f, anat)
       THEN data_dir \o <<subject_id, "anatomy", "highres001_brain.nii.gz">>
       ELSE anat

MissingWarning(s, n) == [kind |-> "missing", subject |-> s, session |-> n]

ExcludingWarning(s) == [kind |-> "excluding", subject |-> s, session |-> ""]

\* lines 76-126, one turn of the for loop, run when do_subjects_preproc asks
\* the generator for more
SubjectFactoryStep ==
    /\ pc = "iterating"
    /\ gen_todo # <<>>
    /\ gen_todo' = Tail(gen_todo)
    /\ LET subject_id == Head(gen_todo)
           bold_root == args.data_dir \o <<subject_id, "BOLD">>
       IN IF subject_id \in args.ignore_subjects
          THEN UNCHANGED <<yielded, warned, examined>>
          ELSE \E globbed \in Orders(GlobStar(fs, bold_root)) :
               LET sessions == SessionList(globbed)
                   scan == ScanSessions(fs, bold_root, sessions,
                               [func |-> <<>>, bad |-> FALSE, missing |-> "",
                                looked |-> <<>>])
                   looked == [i \in 1..Len(scan.looked) |->
                                 <<subject_id, scan.looked[i]>>]
               IN /\ examined' = examined \o looked
                  /\ IF scan.bad
                     THEN /\ warned' = warned \o
                                 <<MissingWarning(subject_id, scan.missing),
                                   ExcludingWarning(subject_id)>>
                          /\ yielded' = yielded
                     ELSE /\ warned' = warned
                          /\ yielded' = Append(yielded,
                                 [subject_id |-> subject_id,
                                  session_id |-> sessions,
                                  func |-> scan.func,
                                  anat |-> ResolveAnat(fs, args.data_dir, subject_id),
                                  output_dir |-> args.output_dir \o <<subject_id>>])
    /\ UNCHANGED <<args, module_globals, remote, fs, pc, error, fetch_calls,
                   subjects, preproc, retval, call, base_output, index,
                   sub_todo, sub_done, run, fs_before, fs_first>>

\* do_subjects_preproc has consumed the generator: it returns the result
\* descriptors (line 128), or raises; then line 141 calls _save_to_layout
DoSubjectsPreprocReturn ==
    /\ pc = "iterating"
    /\ gen_todo = <<>>
    /\ IF \A i \in 1..Len(yielded) : Processable(fs, yielded[i])
       THEN /\ preproc' = [i \in 1..Len(yielded) |-> ResultOf(yielded[i])]
            /\ fs' = WriteResults(fs, yielded)
            /\ pc' = "save_to_layout"
            /\ call' = [data_dir |-> args.data_dir,
                        preproc_dir |-> args.output_dir,
                        preproc |-> preproc',
                        base_output |-> args.open_output,
                        caller |-> "preproc_dataset"]
            /\ error' = error
       ELSE /\ pc' = "raised"
            /\ error' = "PreprocError"
            /\ UNCHANGED <<preproc, fs, call>>
    /\ UNCHANGED <<args, module_globals, remote, fetch_calls, subjects,
                   gen_todo, yielded, warned, examined, retval, base_output,
                   index, sub_todo, sub_done, run, fs_before, fs_first>>

----------------------------------------------------------------------------
(* _save_to_layout *)

\* lines 201-204
check_dir(r, path) ==
    IF r.err # "none" THEN r
    ELSE IF ~Exists(r.fs, path) THEN MakeDirs(r, path)
    ELSE r

\* the link made without removing what is at the destination
link_file_NoRemove(r, dest_dir, src, fname) ==
    IF r.err # "none" THEN r ELSE Link(r, src, dest_dir \o <<fname>>)

\* what is at the destination kept, the link not made
link_file_KeepExisting(r, dest_dir, src, fname) ==
    IF r.err # "none" THEN r
    ELSE LET dest == dest_dir \o <<fname>>
         IN IF Exists(r.fs, dest) THEN r ELSE Link(r, src, dest)

\* lines 215-220, with the file name its callers always give
link_file(r, dest_dir, src, fname) ==
    IF r.err # "none" THEN r
    ELSE LET dest == dest_dir \o <<fname>>
         IN Link(IF Exists(r.fs, dest) THEN Remove(r, dest) ELSE r, src, dest)

\* lines 207-212
RECURSIVE link_files(_, _, _)
link_files(r, dest_dir, files) ==
    IF r.err # "none" \/ files = <<>> THEN r
    ELSE LET f_src == Head(files)
             f_dest == dest_dir \o <<Last(f_src)>>
             r1 == IF Exists(r.fs, f_dest) THEN Remove(r, f_dest) ELSE r
         IN link_files(Link(r1, f_src, f_dest), dest_dir, Tail(files))

PathsIn(d, names) == [i \in 1..Len(names) |-> d \o <<names[i]>>]

\* lines 149-154
BaseOutput(c) ==
    IF c.base_output = NoneValue
    THEN Front(c.preproc_dir) \o <<".openfmri", StudyId(c.data_dir)>>
    ELSE c.base_output[1] \o <<StudyId(c.data_dir)>>

\* line 157: dict() keeps the last descriptor of each subject_id
PreprocIndex(ps) ==
    [s \in {ps[i].subject_id : i \in 1..Len(ps)} |->
        ps[CHOOSE i \in 1..Len(ps) :
              /\ ps[i].subject_id = s
              /\ \A j \in (i + 1)..Len(ps) : ps[j].subject_id # s]]

\* lines 149-169: the destination root, the study's metadata, the listing
\* of the output tree
SaveToLayoutTop ==
    /\ pc = "save_to_layout"
    /\ LET root == BaseOutput(call)
           models_src == call.data_dir \o <<"models", "model001">>
           r0 == check_dir(Ok(fs), root)
           r1 == check_dir(r0, root \o <<"models", "model001">>)
       IN \E models_files \in Orders(GlobTxt(r1.fs, models_src)) :
          LET r2 == link_files(r1, root \o <<"models", "model001">>,
                               PathsIn(models_src, models_files))
          IN \E txt_files \in Orders(GlobTxt(r2.fs, call.data_dir)) :
             LET r3 == link_files(r2, root, PathsIn(call.data_dir, txt_files))
             IN \E subject_dirs \in Orders(GlobSub(r3.fs, call.preproc_dir)) :
                /\ fs' = r3.fs
                /\ error' = r3.err
                /\ pc' = IF r3.err = "none" THEN "subjects" ELSE "raised"
                /\ sub_todo' = IF r3.err = "none" THEN subject_dirs ELSE <<>>
                /\ base_output' = root
    /\ index' = PreprocIndex(call.preproc)
    /\ sub_done' = {}
    /\ run' = run + 1
    /\ fs_before' = fs
    /\ UNCHANGED <<args, module_globals, remote, fetch_calls, subjects,
                   gen_todo, yielded, warned, examined, preproc, retval, call,
                   fs_first>>

\* lines 174-180: the onsets of one subject, session directory by session
\* directory, each one's files in the order files[n] its listing came in
RECURSIVE link_onsets(_, _, _, _, _)
link_onsets(r, onsets_src, onsets_dest, session_dirs, files) ==
    IF r.err # "none" \/ session_dirs = <<>> THEN r
    ELSE LET session_id == Head(session_dirs)
             onsets_dir == onsets_dest \o <<session_id>>
             r1 == check_dir(r, onsets_dir)
             r2 == link_files(r1, onsets_dir,
                       PathsIn(onsets_src \o <<session_id>>, files[session_id]))
         IN link_onsets(r2, onsets_src, onsets_dest, Tail(session_dirs), files)

\* the two files of a session under each other's name
RECURSIVE link_sessions_Swapped(_, _, _, _)
link_sessions_Swapped(r, bold_dest, sub_preproc, i) ==
    IF \/ r.err # "none"
       \/ i > Len(sub_preproc.session_id)
       \/ i > Len(sub_preproc.func)
       \/ i > Len(sub_preproc.realignment_parameters)
    THEN r
    ELSE LET session_dir == bold_dest \o <<sub_preproc.session_id[i]>>
             r1 == check_dir(r, session_dir)
             r2 == link_file(r1, session_dir, sub_preproc.func[i], "motion.txt")
             r3 == link_file(r2, session_dir,
                             sub_preproc.realignment_parameters[i], "bold.nii")
         IN link_sessions_Swapped(r3, bold_dest, sub_preproc, i + 1)

\* lines 190-198: zip stops at the shortest of the three lists
RECURSIVE link_sessions(_, _, _, _)
link_sessions(r, bold_dest, sub_preproc, i) ==
    IF \/ r.err # "none"
       \/ i > Len(sub_preproc.session_id)
       \/ i > Len(sub_preproc.func)
       \/ i > Len(sub_preproc.realignment_parameters)
    THEN r
    ELSE LET session_dir == bold_dest \o <<sub_preproc.session_id[i]>>
             r1 == check_dir(r, session_dir)
             r2 == link_file(r1, session_dir, sub_preproc.func[i], "bold.nii")
             r3 == link_file(r2, session_dir,
                             sub_preproc.realignment_parameters[i], "motion.txt")
         IN link_sessions(r3, bold_dest, sub_preproc, i + 1)

\* lines 183-198
link_preproc(r, dest, idx, subject_id) ==
    IF r.err # "none" THEN r
    ELSE IF subject_id \notin DOMAIN idx THEN Fail(r.fs, "KeyError")
    ELSE LET sub_preproc == idx[subject_id]
             anat_dir == dest \o <<"anatomy">>
             r1 == check_dir(r, anat_dir)
             r2 == link_file(r1, anat_dir, sub_preproc.anat, "highres001.nii")
         IN link_sessions(r2, dest \o <<"BOLD">>, sub_preproc, 1)

\* the orders in which the *.txt files of each of the directories can be
\* listed
FileOrders(f, d, names) ==
    {g \in [names -> UNION {Orders(GlobTxt(f, d \o <<n>>)) : n \in names}] :
        \A n \in names : g[n] \in Orders(GlobTxt(f, d \o <<n>>))}

\* lines 169-198, one turn of the for loop
SaveToLayoutSubject ==
    /\ pc = "subjects"
    /\ sub_todo # <<>>
    /\ LET subject_id == Head(sub_todo)
           onsets_src == call.data_dir \o
                            <<subject_id, "model", "model001", "onsets">>
           dest == base_output \o <<subject_id, "model", "model001">>
       IN \E session_dirs \in Orders(GlobStar(fs, onsets_src)) :
          \E files \in FileOrders(fs, onsets_src, Range(session_dirs)) :
             LET r1 == link_onsets(Ok(fs), onsets_src, dest \o <<"onsets">>,
                                   session_dirs, files)
                 r2 == link_preproc(r1, dest, index, subject_id)
             IN /\ fs' = r2.fs
                /\ error' = r2.err
                /\ pc' = IF r2.err = "none" THEN "subjects" ELSE "raised"
                /\ sub_done' = IF r2.err = "none"
                               THEN sub_done \cup {subject_id} ELSE sub_done
    /\ sub_todo' = Tail(sub_todo)
    /\ UNCHANGED <<args, module_globals, remote, fetch_calls, subjects,
                   gen_todo, yielded, warned, examined, preproc, retval, call,
                   base_output, index, run, fs_before, fs_first>>

\* the loop is over: _save_to_layout returns
SaveToLayoutReturn ==
    /\ pc = "subjects"
    /\ sub_todo = <<>>
    /\ pc' = "mirrored"
    /\ fs_first' = IF run = 1 THEN fs ELSE fs_first
    /\ UNCHANGED <<args, module_globals, remote, fs, error, fetch_calls,
                   subjects, gen_todo, yielded, warned, examined, preproc,
                   retval, call, base_output, index, sub_todo, sub_done, run,
                   fs_before>>

\* line 143
Return ==
    /\ pc = "mirrored"
    /\ call.caller = "preproc_dataset"
    /\ retval' = preproc
    /\ pc' = "returned"
    /\ UNCHANGED <<args, module_globals, remote, fs, error, fetch_calls,
                   subjects, gen_todo, yielded, warned, examined, preproc,
                   call, base_output, index, sub_todo, sub_done, run,
                   fs_before, fs_first>>

\* _save_to_layout called once more with the arguments of the call before
SaveToLayoutAgain ==
    /\ pc = "mirrored"
    /\ call.caller = "direct"
    /\ run < MaxRuns
    /\ pc' = "save_to_layout"
    /\ UNCHANGED <<args, module_globals, remote, fs, error, fetch_calls,
                   subjects, gen_todo, yielded, warned, examined, preproc,
                   retval, call, base_output, index, sub_todo, sub_done, run,
                   fs_before, fs_first>>

----------------------------------------------------------------------------
(* Specifications *)

DataDir == <<"data", "ds105">>

OutputDir == <<"out", "preproc">>

\* the layouts of the two subject entries of the dataset root
Layouts1 ==
    {Absent} \cup
    {SubjectDir(b, f, g, FALSE) : b \in BoldChoices, f \in BOOLEAN, g \in BOOLEAN}
    \cup {SubjectDir([n \in AllSessionNames |-> TRUE], TRUE, FALSE, FALSE),
          SubjectDir([n \in AllSessionNames |-> n = "ses01"], TRUE, FALSE, FALSE)}

Layouts2 ==
    {Absent, PlainFile,
     SubjectDir([n \in {"ses01"} |-> TRUE], TRUE, FALSE, FALSE),
     SubjectDir([n \in {"ses01", "ses02"} |-> n = "ses01"], TRUE, TRUE, FALSE)}

RECURSIVE SeqsUpTo(_, _)
SeqsUpTo(S, n) ==
    IF n = 0 THEN {<<>>}
    ELSE LET shorter == SeqsUpTo(S, n - 1)
         IN shorter \cup {Append(s, x) : s \in shorter, x \in S}

RestrictChoices ==
    {NoneValue} \cup {Some(l) : l \in SeqsUpTo({"sub003", "sub001"}, MaxRestrict)}

IgnoreChoices == {{}, {"sub001"}}

NoCall == [data_dir |-> <<>>, preproc_dir |-> <<>>, preproc |-> <<>>,
           base_output |-> NoneValue, caller |-> "none"]

\* preproc_dataset is called: on a dataset that is on disk or has to be
\* fetched, with or without a trailing "/" on data_dir.  The file binds no
\* preproc_params; the call of line 128 goes through only in a program
\* that has bound the name in the module's namespace.
Init ==
    \E lay1 \in Layouts1, lay2 \in Layouts2, restrict \in RestrictChoices,
       ignore \in IgnoreChoices, on_disk \in BOOLEAN, slash \in BOOLEAN,
       globals \in {{}, {"preproc_params"}} :
       LET tree == Dataset(DataDir,
                       [subs |-> ("sub001" :> lay1) @@ ("sub002" :> lay2),
                        top |-> {"scan_key.txt", "notes.md"},
                        models |-> {"condition_key.txt"}])
       IN /\ args = [data_dir |-> DataDir, slash |-> slash,
                     output_dir |-> OutputDir, open_output |-> NoneValue,
                     ignore_subjects |-> ignore,
                     restrict_subjects |-> restrict]
          /\ module_globals = globals
          /\ remote = IF on_disk THEN NoFs ELSE tree
          /\ fs = (IF on_disk THEN tree ELSE NoFs)
                  @@ MkFs({<<"data">>, <<"out">>}, {})
    /\ pc = "start"
    /\ error = "none"
    /\ fetch_calls = <<>>
    /\ subjects = <<>>
    /\ gen_todo = <<>>
    /\ yielded = <<>>
    /\ warned = <<>>
    /\ examined = <<>>
    /\ preproc = <<>>
    /\ retval = <<>>
    /\ call = NoCall
    /\ base_output = <<>>
    /\ index = <<>>
    /\ sub_todo = <<>>
    /\ sub_done = {}
    /\ run = 0
    /\ fs_before = NoFs
    /\ fs_first = NoFs

Next ==
    \/ FetchIfMissing
    \/ ListSubjects
    \/ CallPreproc
    \/ SubjectFactoryStep
    \/ DoSubjectsPreprocReturn
    \/ SaveToLayoutTop
    \/ SaveToLayoutSubject
    \/ SaveToLayoutReturn
    \/ Return

Spec == Init /\ [][Next]_vars

\* the descriptor subject_factory yields for a subject with these sessions
DescriptorOf(data_dir, output_dir, s, sessions) ==
    [subject_id |-> s,
     session_id |-> sessions,
     func |-> [i \in 1..Len(sessions) |->
                  data_dir \o <<s, "BOLD", sessions[i], "bold.nii.gz">>],
     anat |-> data_dir \o <<s, "anatomy", "highres001.nii.gz">>,
     output_dir |-> output_dir \o <<s>>]

MirrorSessions == ("sub001" :> <<"ses01", "ses02">>) @@ ("sub002" :> <<"ses01">>)

MirrorInput(s) == DescriptorOf(DataDir, OutputDir, s, MirrorSessions[s])

\* what may sit below the destination root before the first call: nothing;
\* unrelated files where links will go; a directory where a link will go;
\* a file where a directory will be needed
PriorFiles(root, prior) ==
    IF prior = "files"
    THEN {root \o <<"scan_key.txt">>,
          root \o <<"models", "model001", "condition_key.txt">>,
          root \o <<"sub001", "model", "model001", "anatomy", "highres001.nii">>,
          root \o <<"sub001", "model", "model001", "BOLD", "ses01", "bold.nii">>,
          root \o <<"sub001", "model", "model001", "BOLD", "ses02", "motion.txt">>,
          root \o <<"sub001", "model", "model001", "onsets", "ses01", "cond001.txt">>}
    ELSE IF prior = "blocked" THEN {root \o <<"sub001", "model">>}
    ELSE {}

PriorDirs(root, prior) ==
    IF prior = "dir"
    THEN {root \o <<"sub001", "model", "model001", "anatomy", "highres001.nii">>}
    ELSE {}

\* _save_to_layout is called on a dataset and an output tree
InitMirror ==
    \E described \in SUBSET {"sub001", "sub002"}, stale \in SUBSET {"sub002"},
       onsets \in BOOLEAN, top \in {{}, {"scan_key.txt", "notes.md", ".hidden.txt"}},
       models \in {{}, {"condition_key.txt"}}, lost \in BOOLEAN,
       base \in {NoneValue, Some(<<"alt">>), Some(<<"data">>)},
       prior \in {"none", "files", "dir", "blocked"} :
       LET inputs == [i \in 1..Cardinality(described) |->
                         MirrorInput(Sorted(SetToSeq(described))[i])]
           c == [data_dir |-> DataDir,
                 preproc_dir |-> OutputDir,
                 preproc |-> [i \in 1..Len(inputs) |-> ResultOf(inputs[i])],
                 base_output |-> base,
                 caller |-> "direct"]
           root == BaseOutput(c)
           gone == IF lost THEN {OutputDir \o <<"sub001", "ses02", "rp.txt">>}
                   ELSE {}
           results == UNION {ResultFiles(inputs[i]) : i \in 1..Len(inputs)}
           lay == SubjectDir([n \in SessionNames |-> TRUE], TRUE, TRUE, onsets)
           D == DatasetDirs(DataDir,
                    [subs |-> ("sub001" :> lay) @@ ("sub002" :> lay)])
                \cup {OutputDir \o <<s>> : s \in described \cup stale}
                \cup {<<"out">>, <<"alt">>}
                \cup PriorDirs(root, prior)
           F == DatasetFiles(DataDir,
                    [subs |-> ("sub001" :> lay) @@ ("sub002" :> lay),
                     top |-> top, models |-> models])
                \cup (results \ gone)
                \cup {OutputDir \o <<"notes.md">>}
                \cup PriorFiles(root, prior)
       IN /\ call = c
          /\ fs = MkFs(D, F)
    /\ args = [data_dir |-> <<>>, slash |-> FALSE, output_dir |-> <<>>,
               open_output |-> NoneValue, ignore_subjects |-> {},
               restrict_subjects |-> NoneValue]
    /\ module_globals = {}
    /\ remote = NoFs
    /\ pc = "save_to_layout"
    /\ error = "none"
    /\ fetch_calls = <<>>
    /\ subjects = <<>>
    /\ gen_todo = <<>>
    /\ yielded = <<>>
    /\ warned = <<>>
    /\ examined = <<>>
    /\ preproc = <<>>
    /\ retval = <<>>
    /\ base_output = <<>>
    /\ index = <<>>
    /\ sub_todo = <<>>
    /\ sub_done = {}
    /\ run = 0
    /\ fs_before = NoFs
    /\ fs_first = NoFs

NextMirror ==
    \/ SaveToLayoutTop
    \/ SaveToLayoutSubject
    \/ SaveToLayoutReturn
    \/ SaveToLayoutAgain

SpecMirror == InitMirror /\ [][NextMirror]_vars

----------------------------------------------------------------------------
(* Properties of the discovery (checked under Spec) *)

YieldedIds == [i \in 1..Len(yielded) |-> yielded[i].subject_id]

Count(x, s) == Cardinality({i \in 1..Len(s) : s[i] = x})

BoldRoot(s) == args.data_dir \o <<s, "BOLD">>

BoldFile(s, n) == args.data_dir \o <<s, "BOLD", n, "bold.nii.gz">>

FullHead(s) == args.data_dir \o <<s, "anatomy", "highres001.nii.gz">>

SkullStripped(s) == args.data_dir \o <<s, "anatomy", "highres001_brain.nii.gz">>

\* the sessions found for subject s, and those without a functional image
DiscoveredSessions(s) == GlobStar(fs, BoldRoot(s))

MissingSessions(s) == {n \in DiscoveredSessions(s) : ~Exists(fs, BoldFile(s, n))}

\* the generator has been iterated to its end
Exhausted == pc = "iterating" /\ gen_todo = <<>>

\* how many turns of its for loop the generator has made
Visited ==
    IF pc \in {"start", "list", "call"} \/ error \in {"NameError", "FetchError"}
    THEN 0
    ELSE Len(subjects) - Len(gen_todo)

SubjectDirectories ==
    {n \in GlobSub(fs, args.data_dir) : IsDir(fs, args.data_dir \o <<n>>)}

CompleteData == \A s \in DOMAIN Ord : MissingSessions(s) = {}

\* C1 as stated: with complete data, the yielded identifiers are the subject
\* directories, intersected with the inclusion list when one is given, minus
\* the exclusion list, each once, in lexicographic order; with no lists as
\* many are yielded as there are sub??? directories.
C1_AsStated ==
    (Exhausted /\ CompleteData) =>
        LET included == IF args.restrict_subjects = NoneValue
                        THEN SubjectDirectories
                        ELSE SubjectDirectories \cap Range(args.restrict_subjects[1])
            selected == included \ args.ignore_subjects
        IN /\ Range(YieldedIds) = selected
           /\ Len(YieldedIds) = Cardinality(selected)
           /\ \A i, j \in 1..Len(YieldedIds) :
                  i < j => StrLess(YieldedIds[i], YieldedIds[j])
           /\ (args.restrict_subjects = NoneValue /\ args.ignore_subjects = {})
                  => Len(YieldedIds) = Cardinality(SubjectDirectories)

\* C1 amended: with complete data, an identifier is yielded as many times as
\* it occurs in the inclusion list when one is given (whether or not the
\* dataset has such a directory), otherwise once for each entry of the
\* dataset root matching sub??? (directory or not); never when it is in the
\* exclusion list; the identifiers come in lexicographic order.
C1_SubjectSelection ==
    (Exhausted /\ CompleteData) =>
        /\ \A n \in DOMAIN Ord :
              Count(n, YieldedIds) =
                  IF n \in args.ignore_subjects THEN 0
                  ELSE IF args.restrict_subjects # NoneValue
                       THEN Count(n, args.restrict_subjects[1])
                       ELSE IF n \in GlobSub(fs, args.data_dir) THEN 1 ELSE 0
        /\ \A i, j \in 1..Len(YieldedIds) :
              i < j => ~StrLess(YieldedIds[j], YieldedIds[i])

C1_Witness ==
    /\ Exhausted
    /\ CompleteData
    /\ args.restrict_subjects # NoneValue
    /\ Len(args.restrict_subjects[1]) = 2
    /\ Len(yielded) = 2
    /\ YieldedIds[1] # YieldedIds[2]

\* C2: only a subject all of whose discovered sessions have bold.nii.gz is
\* yielded; a visited subject with a session lacking it is not yielded at
\* all, and a warning naming it and one of its missing sessions was given;
\* the run has not ended in an exception of the generator.
C2_WholeSubjectExclusion ==
    /\ \A i \in 1..Len(yielded) : MissingSessions(yielded[i].subject_id) = {}
    /\ \A k \in 1..Visited :
          LET s == subjects[k]
          IN (s \notin args.ignore_subjects /\ MissingSessions(s) # {}) =>
                /\ s \notin Range(YieldedIds)
                /\ \E i \in 1..Len(warned) :
                      /\ warned[i].kind = "missing"
                      /\ warned[i].subject = s
                      /\ warned[i].session \in MissingSessions(s)
    /\ (Visited > 0 /\ pc = "raised") => gen_todo = <<>>

C2_Witness ==
    /\ Exhausted
    /\ Len(yielded) > 0
    /\ \E k \in 1..Visited :
          /\ subjects[k] \notin args.ignore_subjects
          /\ Cardinality(DiscoveredSessions(subjects[k])) = 2
          /\ MissingSessions(subjects[k]) = {"ses02"}

\* C3: the session list of every yielded descriptor is the set of names
\* found under the subject's BOLD directory in strictly increasing order,
\* and its functional images are, position by position, the bold.nii.gz of
\* those sessions.
C3_DescriptorWellFormed ==
    \A i \in 1..Len(yielded) :
        LET d == yielded[i]
        IN /\ Range(d.session_id) = DiscoveredSessions(d.subject_id)
           /\ \A a, b \in 1..Len(d.session_id) :
                  a < b => StrLess(d.session_id[a], d.session_id[b])
           /\ Len(d.func) = Len(d.session_id)
           /\ \A a \in 1..Len(d.session_id) :
                  d.func[a] = BoldFile(d.subject_id, d.session_id[a])

C3_Witness ==
    \E i \in 1..Len(yielded) :
        /\ yielded[i].session_id = <<"ses01", "ses02", "ses03">>
        /\ Len(yielded[i].func) = 3

\* C6: the anatomical path of a yielded subject is the full-head image when
\* that exists and the skull-stripped one otherwise, whether or not the
\* latter exists; a subject without missing sessions is yielded whatever
\* anatomical images it has.
C6_AnatomicalPath ==
    /\ \A i \in 1..Len(yielded) :
          LET d == yielded[i]
          IN /\ Exists(fs, FullHead(d.subject_id)) => d.anat = FullHead(d.subject_id)
             /\ ~Exists(fs, FullHead(d.subject_id)) =>
                    d.anat = SkullStripped(d.subject_id)
    /\ \A k \in 1..Visited :
          (subjects[k] \notin args.ignore_subjects /\ MissingSessions(subjects[k]) = {})
              => subjects[k] \in Range(YieldedIds)

C6_Witness ==
    \E i, j \in 1..Len(yielded) :
        /\ ~Exists(fs, FullHead(yielded[i].subject_id))
        /\ Exists(fs, SkullStripped(yielded[i].subject_id))
        /\ yielded[i].anat = SkullStripped(yielded[i].subject_id)
        /\ ~Exists(fs, FullHead(yielded[j].subject_id))
        /\ ~Exists(fs, SkullStripped(yielded[j].subject_id))

\* the first, in lexicographic order, of the sessions of s without data
FirstMissing(s) ==
    CHOOSE m \in MissingSessions(s) :
        \A o \in MissingSessions(s) : o = m \/ StrLess(m, o)

\* the sessions of s up to that one, in lexicographic order
LookedAtUntilMissing(s) ==
    LET upto == {n \in DiscoveredSessions(s) :
                    n = FirstMissing(s) \/ StrLess(n, FirstMissing(s))}
        order == CHOOSE q \in Orders(upto) :
                    \A a, b \in 1..Len(q) : a < b => StrLess(q[a], q[b])
    IN [i \in 1..Len(order) |-> <<s, order[i]>>]

\* C8: the turn of the loop for a subject with sessions lacking data looks
\* at its sessions in sorted order up to the first missing one and at none
\* after it, gives one missing-data warning, for that session, then one
\* 'Excluding subject' warning, yields nothing, and leaves the generator
\* running on the remaining subjects; whether a visited subject is yielded
\* depends on its own sessions only.
C8_ShortCircuit ==
    /\ [][(/\ pc = "iterating"
           /\ gen_todo # <<>>
           /\ Head(gen_todo) \notin args.ignore_subjects
           /\ MissingSessions(Head(gen_todo)) # {})
          => LET s == Head(gen_todo)
             IN /\ warned' = warned \o <<MissingWarning(s, FirstMissing(s)),
                                         ExcludingWarning(s)>>
                /\ examined' = examined \o LookedAtUntilMissing(s)
                /\ yielded' = yielded
                /\ gen_todo' = Tail(gen_todo)
                /\ pc' = "iterating"
                /\ error' = "none"]_vars
    /\ [](\A k \in 1..Visited :
            subjects[k] \in Range(YieldedIds)
                <=> (/\ subjects[k] \notin args.ignore_subjects
                     /\ MissingSessions(subjects[k]) = {}))

C8_Witness ==
    /\ Exhausted
    /\ Visited = 2
    /\ subjects[1] \notin args.ignore_subjects
    /\ DiscoveredSessions(subjects[1]) = {"ses01", "ses02", "ses03"}
    /\ MissingSessions(subjects[1]) = {"ses02", "ses03"}
    /\ warned = <<MissingWarning(subjects[1], "ses02"),
                  ExcludingWarning(subjects[1])>>
    /\ SelectSeq(examined, LAMBDA e : e[1] = subjects[1])
           = <<<<subjects[1], "ses01">>, <<subjects[1], "ses02">>>>
    /\ YieldedIds = <<subjects[2]>>

LinkErrors == {"ENOENT", "EPERM", "EEXIST", "ENOTDIR", "EISDIR", "KeyError"}

\* C7: fetch is called iff the input directory is not there, once, with the
\* two parts of the path, before anything else; nothing is discovered
\* before the preprocessing routine iterates; the mirror step runs only
\* after that routine has returned; a run that does not return was ended by
\* the fetch, the preprocessing or the linking, and one that returns
\* returns the descriptors the preprocessing routine returned.
C7_EntryPoint ==
    /\ pc # "start" =>
          fetch_calls = IF remote = NoFs THEN <<>>
                        ELSE <<[data_dir |-> Split(args.data_dir, args.slash).head,
                                dataset_id |-> Split(args.data_dir, args.slash).tail]>>
    /\ pc \in {"start", "list", "call"} =>
          yielded = <<>> /\ warned = <<>> /\ examined = <<>>
    /\ run > 0 => gen_todo = <<>> /\ Len(preproc) = Len(yielded)
    /\ pc = "raised" => error \in {"FetchError", "PreprocError"} \cup LinkErrors
    /\ pc = "returned" =>
          /\ retval = preproc
          /\ Len(preproc) = Len(yielded)
          /\ \A i \in 1..Len(preproc) : preproc[i].subject_id = yielded[i].subject_id

----------------------------------------------------------------------------
(* Properties of the mirror step (checked under SpecMirror) *)

Pair(s, d) == [src |-> s, dest |-> d]

SubjectDest(s) == base_output \o <<s, "model", "model001">>

OnsetsSource(s) == call.data_dir \o <<s, "model", "model001", "onsets">>

Described(s) == \E i \in 1..Len(call.preproc) : call.preproc[i].subject_id = s

DescriptorFor(s) ==
    call.preproc[CHOOSE i \in 1..Len(call.preproc) : call.preproc[i].subject_id = s]

\* the links of the output layout: study metadata, onsets, and the images
\* and motion files of the subjects of the output tree
MetadataLinks(f) ==
    {Pair(call.data_dir \o <<n>>, base_output \o <<n>>) :
        n \in GlobTxt(f, call.data_dir)}
    \cup {Pair(call.data_dir \o <<"models", "model001", n>>,
               base_output \o <<"models", "model001", n>>) :
        n \in GlobTxt(f, call.data_dir \o <<"models", "model001">>)}

OnsetsLinks(f, s) ==
    UNION {{Pair(OnsetsSource(s) \o <<m, n>>, SubjectDest(s) \o <<"onsets", m, n>>) :
               n \in GlobTxt(f, OnsetsSource(s) \o <<m>>)} :
           m \in GlobStar(f, OnsetsSource(s))}

ImagingLinks(s) ==
    LET d == DescriptorFor(s)
    IN {Pair(d.anat, SubjectDest(s) \o <<"anatomy", "highres001.nii">>)}
       \cup {Pair(d.func[i],
                  SubjectDest(s) \o <<"BOLD", d.session_id[i], "bold.nii">>) :
             i \in 1..Len(d.session_id)}
       \cup {Pair(d.realignment_parameters[i],
                  SubjectDest(s) \o <<"BOLD", d.session_id[i], "motion.txt">>) :
             i \in 1..Len(d.session_id)}

LayoutLinks(f) ==
    MetadataLinks(f)
    \cup UNION {OnsetsLinks(f, s) \cup (IF Described(s) THEN ImagingLinks(s) ELSE {}) :
                s \in GlobSub(f, call.preproc_dir)}

\* path dest is a hard link of the file that was at src when the call began
LinkedTo(dest, src) ==
    /\ Exists(fs_before, src)
    /\ Exists(fs, dest)
    /\ fs[dest] = fs_before[src]

Unrelated(f, dest, src) ==
    /\ Exists(f, dest)
    /\ f[dest].kind = "file"
    /\ ~Exists(f, src) \/ f[dest] # f[src]

\* C4: a second call with the same arguments on the tree the first call
\* left raises no 'already exists' error (it raises nothing), and when it
\* returns every path refers to the file it referred to after the first.
C4_MirrorIdempotence ==
    run >= 2 =>
        /\ error # "EEXIST"
        /\ pc # "raised"
        /\ pc = "mirrored" => fs = fs_first

C4_Witness ==
    /\ run = 2
    /\ pc = "mirrored"
    /\ "sub001" \in sub_done
    /\ \E p \in LayoutLinks(fs_first) : LinkedTo(p.dest, p.src)

\* C5: when the mirror step has completed, every destination path it links
\* to that held unrelated content before is a hard link of its source file.
C5_DestructiveOverwrite ==
    pc = "mirrored" =>
        \A p \in LayoutLinks(fs_before) :
            Unrelated(fs_before, p.dest, p.src) => LinkedTo(p.dest, p.src)

C5_Witness ==
    /\ pc = "mirrored"
    /\ \E p, q \in LayoutLinks(fs_before) :
          /\ Unrelated(fs_before, p.dest, p.src)
          /\ Last(p.dest) = "motion.txt"
          /\ LinkedTo(p.dest, p.src)
          /\ Unrelated(fs_before, q.dest, q.src)
          /\ Last(q.dest) = "scan_key.txt"
          /\ LinkedTo(q.dest, q.src)

\* C9: once the loop body has run for a sub??? directory of the output
\* tree, the subject's descriptor's anatomical image is linked at
\* anatomy/highres001.nii and, for every session index i of the descriptor,
\* func[i] at BOLD/<session_id[i]>/bold.nii and realignment_parameters[i] at
\* motion.txt beside it.
C9_SubjectMirrored ==
    \A s \in sub_done :
        /\ Described(s)
        /\ LET d == DescriptorFor(s)
           IN /\ LinkedTo(SubjectDest(s) \o <<"anatomy", "highres001.nii">>, d.anat)
              /\ \A i \in 1..Len(d.session_id) :
                    /\ LinkedTo(SubjectDest(s) \o
                                   <<"BOLD", d.session_id[i], "bold.nii">>,
                                d.func[i])
                    /\ LinkedTo(SubjectDest(s) \o
                                   <<"BOLD", d.session_id[i], "motion.txt">>,
                                d.realignment_parameters[i])

C9_Witness ==
    /\ sub_done = {"sub001", "sub002"}
    /\ Len(DescriptorFor("sub001").session_id) = 2

\* C10: every source file of the mirror step that existed when the step
\* began is still at its path, unchanged, whether the step has succeeded or
\* failed, and every path the step has removed holds a link again.
C10_SourcesPreserved ==
    /\ \A p \in LayoutLinks(fs_before) :
          (Exists(fs_before, p.src) /\ fs_before[p.src].kind = "file")
              => (Exists(fs, p.src) /\ fs[p.src] = fs_before[p.src])
    /\ pc \in {"raised", "mirrored"} => DOMAIN fs_before \subseteq DOMAIN fs

====
